---- MODULE Spec2Model ----
(***************************************************************************)
(* A model of the Tilda site mirroring pipeline: the path mapper           *)
(* (ContentProcessor._generate_local_path), the page crawler               *)
(* (TildaExtractor.extract_pages) and the recursive asset resolver         *)
(* (_download_assets_recursively) and the process command with the page    *)
(* processing it runs (ContentProcessor.process_pages).                    *)
(*                                                                         *)
(* Text is modelled as a sequence of tokens.  A token is a TLA+ string     *)
(* standing for an indivisible run of characters: "https:", "//", a host   *)
(* name or a host suffix, "/", a path segment, "?", "#".  Python's string  *)
(* operations (startswith, slicing, split, urlparse, urljoin) become the   *)
(* same operations on token sequences.                                     *)
(*                                                                         *)
(* A raised Python exception is modelled as a value: the one-token         *)
(* sequence naming the exception class.                                    *)
(***************************************************************************)
EXTENDS Integers, Sequences, FiniteSets, TLC

VARIABLES
    \* ---- path mapper calls (ContentProcessor) ----
    cfg_base_url,        \* str(self.config.base_url)
    map_calls,           \* the calls of _generate_local_path made so far
    \* ---- TildaExtractor.extract_pages ----
    to_visit,            \* list used as a queue
    visited,             \* set of URLs
    pages,               \* list of page records
    crawl_pc,            \* "Idle", "Crawling", "Done"
    enqueued,            \* history: every URL ever appended to to_visit
    page_gets,           \* history: the URLs passed to driver.get, in order
    \* ---- _download_assets_recursively ----
    assets_to_download,  \* the manifest: URL -> [local_path, type]
    download_queue,      \* set of URLs
    processed_urls,      \* set of URLs
    dist_files,          \* local path -> stored content
    res_pc,              \* "Idle", "Loop", "Returned", "Raised"
    initial_keys,        \* history: the manifest keys the run started with
    requests_log,        \* history: the URLs passed to requests.get, in order
    scanned,             \* history: the URLs whose content was scanned as css
    last_failure,        \* history: the URL and the kind of failure of the
                         \* latest iteration's request, if it failed
    \* ---- the process command (ContentProcessor.process_pages) ----
    form_handler_url,    \* self.form_handler_url
    processed_pages,     \* the list process_pages builds
    dist_pages,          \* filename -> the page html written to dist/
    proc_pc,             \* "Idle", "Processing", "Written", "Done", "Exit1"
    raised_on,           \* history: the elements of the page _process_page
                         \* raised on, if any
    warnings,            \* history: how many warnings about forms left
                         \* alone were logged
    \* ---- the migrate command ----
    mig_pc,              \* "Idle", "Extracted", "HandlerDeployed",
                         \* "StaticDeployed", "Exit1"
    form_url,            \* the local form_url of migrate
    steps,               \* history: the steps started, in order
    \* ---- MigrationAgent ----
    agent_pc,            \* the position in __init__ and run
    dry_run,             \* self.dry_run, of the agent and of its deployer
    agent_cfg,           \* config.deployment: monitoring, auto_backup
    cloud_ops,           \* history: what the deployer did and how often
    \* ---- ContentProcessor.relativize_links ----
    rel_last,            \* history: the latest call, its arguments and result
    \* ---- ContentProcessor._parse_and_replace_css_urls ----
    css_last,            \* history: the latest call, its arguments, the
                         \* manifest before it and its result
    \* ---- the site crawled ----
    site                 \* page URL -> the a[href] values of the page served

mapVars   == <<cfg_base_url, map_calls>>
crawlVars == <<to_visit, visited, pages, crawl_pc, enqueued, page_gets>>
resVars   == <<assets_to_download, download_queue, processed_urls, dist_files,
               res_pc, initial_keys, requests_log, scanned, last_failure>>
procVars  == <<form_handler_url, processed_pages, dist_pages, proc_pc,
               raised_on, warnings>>
migVars   == <<mig_pc, form_url, steps>>
agentVars == <<agent_pc, dry_run, agent_cfg, cloud_ops>>
relVars   == <<rel_last>>
cssVars   == <<css_last>>
siteVars  == <<site>>
orchVars  == <<migVars, agentVars, relVars, cssVars, siteVars>>
vars      == <<mapVars, crawlVars, resVars, procVars, orchVars>>

----------------------------------------------------------------------------
\* Bounds of the model.

\* The longest run of path mapper calls explored.
MaxCalls == 2
\* The most a[href] links one fetched page carries.
MaxLinks == 2
\* The most url(...) references one fetched stylesheet carries.
MaxRefs == 2
\* The most pages pages.json holds.
MaxPages == 2
\* The most elements with a reference or a form one page carries.
MaxElems == 2

----------------------------------------------------------------------------
\* Strings as token sequences.

AttributeError == <<"!AttributeError">>
ValueError     == <<"!ValueError">>

IsException(v) == v \in {AttributeError, ValueError}

\* str.startswith
StartsWith(s, prefix) ==
    /\ Len(prefix) <= Len(s)
    /\ SubSeq(s, 1, Len(prefix)) = prefix

\* s[n:]
DropFirst(s, n) == SubSeq(s, n + 1, Len(s))

\* The position of the first token of s that is in the set, Len(s)+1 if none.
FirstIn(s, set) ==
    IF \E i \in 1..Len(s) : s[i] \in set
    THEN CHOOSE i \in 1..Len(s) :
            /\ s[i] \in set
            /\ \A j \in 1..(i - 1) : s[j] \notin set
    ELSE Len(s) + 1

\* `x in s` for a one-token needle
Contains(s, tok) == \E i \in 1..Len(s) : s[i] = tok

\* The tokens that end in ".css".
CssNamed == {"a.css"}

\* str.endswith('.css')
EndsWithCss(s) == s # <<>> /\ s[Len(s)] \in CssNamed

----------------------------------------------------------------------------
\* urllib.parse

Schemes == {"https:", "http:", "data:", "mailto:", "tel:"}
\* urllib.parse.uses_netloc / uses_relative, as far as the model's schemes go
UsesNetloc == {"https:", "http:"}

\* urlparse(url): (scheme, netloc, path, query, fragment), split off from
\* the left as urlsplit does.  The scheme keeps its colon; an absent
\* component is the empty sequence ("" for the scheme).
ParseScheme(url) ==
    IF url # <<>> /\ url[1] \in Schemes
    THEN [scheme |-> url[1], rest |-> Tail(url)]
    ELSE [scheme |-> "", rest |-> url]

NetlocAt(p, netEnd) ==
    [scheme |-> p.scheme,
     netloc |-> SubSeq(p.rest, 2, netEnd),
     rest   |-> SubSeq(p.rest, netEnd + 1, Len(p.rest))]

ParseNetloc(p) ==
    IF p.rest # <<>> /\ p.rest[1] = "//"
    THEN NetlocAt(p, FirstIn(Tail(p.rest), {"/", "?", "#"}))
    ELSE [scheme |-> p.scheme, netloc |-> <<>>, rest |-> p.rest]

FragmentAt(p, pos) ==
    [scheme |-> p.scheme, netloc |-> p.netloc,
     fragment |-> SubSeq(p.rest, pos + 1, Len(p.rest)),
     rest     |-> SubSeq(p.rest, 1, pos - 1)]

ParseFragment(p) == FragmentAt(p, FirstIn(p.rest, {"#"}))

QueryAt(p, pos) ==
    [scheme |-> p.scheme, netloc |-> p.netloc,
     path     |-> SubSeq(p.rest, 1, pos - 1),
     query    |-> SubSeq(p.rest, pos + 1, Len(p.rest)),
     fragment |-> p.fragment]

ParseQuery(p) == QueryAt(p, FirstIn(p.rest, {"?"}))

urlparse(url) == ParseQuery(ParseFragment(ParseNetloc(ParseScheme(url))))

\* urlunparse / ParseResult.geturl
NetlocAndPath(p) ==
    IF \/ p.netloc # <<>>
       \/ /\ p.scheme \in UsesNetloc
          /\ ~ StartsWith(p.path, <<"//">>)
    THEN <<"//">> \o p.netloc
         \o (IF p.path # <<>> /\ p.path[1] # "/" THEN <<"/">> ELSE <<>>)
         \o p.path
    ELSE p.path

urlunparse(p) ==
    (IF p.scheme # "" THEN <<p.scheme>> ELSE <<>>)
    \o NetlocAndPath(p)
    \o (IF p.query # <<>> THEN <<"?">> \o p.query ELSE <<>>)
    \o (IF p.fragment # <<>> THEN <<"#">> \o p.fragment ELSE <<>>)

\* path.split('/'): the segments between the "/" tokens, "" for an empty one.
RECURSIVE SplitSlash(_)
SplitSlash(path) ==
    IF path = <<>> THEN <<"">>
    ELSE IF path[1] = "/" THEN <<"">> \o SplitSlash(Tail(path))
    ELSE IF Len(path) = 1 THEN <<path[1]>>
    ELSE IF path[2] = "/" THEN <<path[1]>> \o SplitSlash(DropFirst(path, 2))
    ELSE <<path[1]>> \o SplitSlash(Tail(path))

\* '/'.join(segments)
RECURSIVE JoinSlash(_)
JoinSlash(segs) ==
    IF segs = <<>> THEN <<>>
    ELSE (IF segs[1] = "" THEN <<>> ELSE <<segs[1]>>)
         \o (IF Len(segs) = 1 THEN <<>> ELSE <<"/">> \o JoinSlash(Tail(segs)))

\* The dot-segment loop of urljoin.
RECURSIVE ResolveDots(_, _)
ResolveDots(segments, resolved) ==
    IF segments = <<>> THEN resolved
    ELSE IF segments[1] = ".."
         THEN ResolveDots(Tail(segments),
                          IF resolved = <<>> THEN <<>>
                          ELSE SubSeq(resolved, 1, Len(resolved) - 1))
         ELSE IF segments[1] = "." THEN ResolveDots(Tail(segments), resolved)
         ELSE ResolveDots(Tail(segments), Append(resolved, segments[1]))

\* segments[1:-1] = filter(None, segments[1:-1])
FilterInner(segments) ==
    IF Len(segments) <= 2 THEN segments
    ELSE <<segments[1]>>
         \o SelectSeq(SubSeq(segments, 2, Len(segments) - 1), LAMBDA s : s # "")
         \o <<segments[Len(segments)]>>

\* base_parts: the base path's segments without the last one, unless empty.
BaseParts(bparts) ==
    IF bparts[Len(bparts)] # "" THEN SubSeq(bparts, 1, Len(bparts) - 1)
    ELSE bparts

\* '/'.join(resolved_path) or '/'
ResolvedPath(segments) ==
    IF JoinSlash(ResolveDots(segments, <<>>)) = <<>> THEN <<"/">>
    ELSE JoinSlash(IF segments[Len(segments)] \in {".", ".."}
                   THEN Append(ResolveDots(segments, <<>>), "")
                   ELSE ResolveDots(segments, <<>>))

MergedPath(bpath, upath) ==
    ResolvedPath(IF upath[1] = "/" THEN SplitSlash(upath)
                 ELSE FilterInner(BaseParts(SplitSlash(bpath)) \o SplitSlash(upath)))

\* urljoin once both URLs are parsed and the scheme is settled.
JoinSchemed(url, b, u, scheme) ==
    IF scheme # b.scheme \/ scheme \notin UsesNetloc THEN url
    ELSE urlunparse(
           IF u.netloc # <<>> THEN [u EXCEPT !.scheme = scheme]
           ELSE IF u.path = <<>>
           THEN [scheme |-> scheme, netloc |-> b.netloc, path |-> b.path,
                 query |-> IF u.query = <<>> THEN b.query ELSE u.query,
                 fragment |-> u.fragment]
           ELSE [scheme |-> scheme, netloc |-> b.netloc,
                 path |-> MergedPath(b.path, u.path),
                 query |-> u.query, fragment |-> u.fragment])

\* A netloc opening with "[" that never closes makes urlsplit raise
\* ValueError("Invalid IPv6 URL").
JoinParsed(url, b, u) ==
    IF u.netloc # <<>> /\ u.netloc[1] = "[" THEN ValueError
    ELSE JoinSchemed(url, b, u, IF u.scheme = "" THEN b.scheme ELSE u.scheme)

\* urljoin(base, url)
urljoin(base, url) ==
    IF base = <<>> THEN url
    ELSE IF url = <<>> THEN base
    ELSE JoinParsed(url, urlparse(base), urlparse(url))

----------------------------------------------------------------------------
\* The universe of URLs.

SiteBase  == <<"https:", "//", "site.example">>
\* str() of the empty DotMap that a configuration section without a
\* base_url key hands out.
NoBaseUrl == <<"DotMap()">>

CssA    == SiteBase \o <<"/", "css", "/", "a.css">>
CssT    == SiteBase \o <<"/", "css", "/", "theme">>
FontF   == SiteBase \o <<"/", "css", "/", "font.woff2">>
CdnImg  == <<"https:", "//", "cdn.example", "/", "img.png">>

\* The URLs handed to the path mapper.
MapperInputs ==
    { <<>>,
      CssA,
      CssA \o <<"?", "v=1">>,
      CssA \o <<"#", "frag">>,
      CdnImg,
      SiteBase \o <<"/", "..", "/", "..", "/", "..", "/", "etc", "/", "passwd">>,
      <<"https:", "//", "cdn.example", "/", "..", "/", "x.png">>,
      SiteBase \o <<"/">>,
      <<"/", "local", "/", "x.png">>,
      <<"font.woff2">> }

----------------------------------------------------------------------------
\* ContentProcessor._generate_local_path

\* self.config.get("assets_dir", "assets")
assets_dir == <<"assets">>

\* Path(a) / b: an absolute right operand replaces the left one.
PathJoin(a, b) ==
    IF b = <<>> THEN a
    ELSE IF b[1] = "/" THEN b
    ELSE a \o <<"/">> \o b

\* Path(...).lstrip('/'): pathlib's Path objects have no str methods, so the
\* attribute lookup raises AttributeError before anything is stripped.
PathLstrip(path) == AttributeError

\* hashlib.md5(s.encode()).hexdigest(): one token per distinct input.
md5hex(s) == ToString(s)

\* Path(s).suffix: the extension of the last component.
PathSuffix(s) ==
    IF s = <<>> THEN <<>>
    ELSE CASE s[Len(s)] \in CssNamed       -> <<".css">>
           [] s[Len(s)] = "font.woff2"     -> <<".woff2">>
           [] s[Len(s)] \in {"img.png", "x.png"} -> <<".png">>
           [] OTHER                        -> <<>>

\* The else branch of line 357: external/<domain>/<path>.
ExternalPath(domain, path_part) ==
    IF IsException(path_part) THEN path_part
    ELSE PathJoin(PathJoin(<<"external">>, domain), path_part)

\* relative_path, lines 355-362.
RelativePath(parsed_url, clean_url, base) ==
    IF StartsWith(clean_url, base)
    THEN PathLstrip(DropFirst(clean_url, Len(base)))
    ELSE ExternalPath(parsed_url.netloc, PathLstrip(parsed_url.path))

\* final_path, lines 368-382: the hashed fallback when ".." is in the path.
FinalPath(clean_url, relative_path) ==
    IF IsException(relative_path) THEN relative_path
    ELSE IF Contains(relative_path, "..")
    THEN PathJoin(assets_dir, <<md5hex(clean_url)>> \o PathSuffix(clean_url))
    ELSE PathJoin(assets_dir, relative_path)

\* Lines 351-352: the URL without its query string and fragment.
CleanUrl(parsed_url) ==
    urlunparse([parsed_url EXCEPT !.query = <<>>, !.fragment = <<>>])

MapClean(parsed_url, clean_url, base) ==
    FinalPath(clean_url, RelativePath(parsed_url, clean_url, base))

MapParsed(parsed_url, base) == MapClean(parsed_url, CleanUrl(parsed_url), base)

\* _generate_local_path(url), with str(self.config.base_url) = base.
generate_local_path(url, base) ==
    IF url = <<>> THEN <<>> ELSE MapParsed(urlparse(url), base)

\* The values str(self.config.base_url) takes.
ConfigBaseUrls == {SiteBase, NoBaseUrl}

MapIdle == cfg_base_url \in ConfigBaseUrls /\ map_calls = <<>>

\* One call processor._generate_local_path(u), by whatever caller.
CallGenerateLocalPath ==
    /\ Len(map_calls) < MaxCalls
    /\ \E u \in MapperInputs :
          map_calls' = Append(map_calls,
                              [url |-> u, out |-> generate_local_path(u, cfg_base_url)])
    /\ UNCHANGED <<cfg_base_url, orchVars, crawlVars, resVars, procVars>>

----------------------------------------------------------------------------
\* TildaExtractor.extract_pages

\* self.base_url
base_url == SiteBase

\* The a[href] values a served page may carry.
Hrefs ==
    { <<"/", "a">>,
      SiteBase \o <<"/", "b">>,
      SiteBase,
      <<"https:", "//", "other.example", "/", "x">>,
      <<"https:", "//", "site.example", ".evil.com", "/", "x">>,
      <<"mailto:", "x">>,
      <<"#", "top">>,
      <<"https:", "//", "[">> }

RECURSIVE SeqsUpTo(_, _)
\* The sequences over S of length at most n.
SeqsUpTo(S, n) ==
    IF n = 0 THEN {<<>>}
    ELSE LET shorter == SeqsUpTo(S, n - 1)
         IN  shorter \cup {Append(q, x) : q \in shorter, x \in S}

\* What driver.page_source may hold: the page's a[href] values in document
\* order.
PageSources == SeqsUpTo(Hrefs, MaxLinks)

\* The saturating count of a history counter.
Bump(counts, u) ==
    IF u \in DOMAIN counts
    THEN [counts EXCEPT ![u] = IF @ < 2 THEN @ + 1 ELSE @]
    ELSE [x \in DOMAIN counts \cup {u} |-> IF x = u THEN 1 ELSE counts[x]]

\* href.startswith('mailto:') or href.startswith('tel:') or href.startswith('#')
SkippedHref(href) ==
    href # <<>> /\ href[1] \in {"mailto:", "tel:", "#"}

\* The link filter without its `abs_url not in to_visit`.
FollowLinkUnqueued(abs_url, vis, tv) ==
    /\ StartsWith(abs_url, base_url)
    /\ abs_url \notin vis

\* The link filter of line 135.
FollowLink(abs_url, vis, tv) ==
    /\ StartsWith(abs_url, base_url)
    /\ abs_url \notin vis
    /\ ~ \E i \in 1..Len(tv) : tv[i] = abs_url

\* One a[href] once urljoin has run: an exception raised in the loop body
\* ends the iteration of the outer loop, the rest of the links unread.
RECURSIVE ScanLinks(_, _, _)
ScanLink(links, tv, vis, abs_url) ==
    IF IsException(abs_url) THEN tv
    ELSE ScanLinks(Tail(links),
                   IF FollowLink(abs_url, vis, tv) THEN Append(tv, abs_url) ELSE tv,
                   vis)

\* The for loop over soup.find_all('a', href=True): the queue it leaves.
ScanLinks(links, tv, vis) ==
    IF links = <<>> THEN tv
    ELSE IF SkippedHref(links[1]) THEN ScanLinks(Tail(links), tv, vis)
    ELSE ScanLink(links, tv, vis, urljoin(base_url, links[1]))

\* {'url': url, 'html': html}.  The html text is left out of the state: no
\* later step of extract_pages reads it back.
PageRecord(url, html) == [url |-> url]

\* The page loop without its visited.add(url).
MarkVisitedNot(vis, url) == vis

\* visited.add(url)
MarkVisited(vis, url) == vis \cup {url}

\* The except branch putting the failed URL back on the queue.
AfterPageFailureRetry(rest, url) == Append(rest, url)

\* The except branch putting the failed URL back at the head of the queue.
AfterPageFailureRequeue(rest, url) == <<url>> \o rest

\* The except branch of the page loop: log and continue with the rest of
\* the queue.
AfterPageFailure(rest, url) == rest

SeqToSet(q) == {q[i] : i \in 1..Len(q)}

\* to_visit.pop(): the queue used as a stack.
PopLast(tv) == [url |-> tv[Len(tv)], rest |-> SubSeq(tv, 1, Len(tv) - 1)]

\* Line 109: url = to_visit.pop(0).
Pop(tv) == [url |-> Head(tv), rest |-> Tail(tv)]

CrawlIdle ==
    /\ to_visit = <<>>
    /\ visited = {}
    /\ pages = <<>>
    /\ crawl_pc = "Idle"
    /\ enqueued = {}
    /\ page_gets = <<>>

\* Lines 102-105.
StartCrawl ==
    /\ crawl_pc = "Idle"
    /\ crawl_pc' = "Crawling"
    /\ to_visit' = <<base_url>>
    /\ visited' = {}
    /\ pages' = <<>>
    /\ UNCHANGED <<enqueued, page_gets, mapVars, orchVars, resVars, procVars>>

\* A page was fetched: lines 121-137, tv being the queue the link loop
\* leaves.
CrawlPageScanned(url, rest, html, vis, tv) ==
    /\ pages' = Append(pages, PageRecord(url, html))
    /\ visited' = vis
    /\ to_visit' = tv
    /\ enqueued' = enqueued \cup SeqToSet(DropFirst(tv, Len(rest)))
    /\ page_gets' = Bump(page_gets, url)

CrawlPage(url, rest, html, vis) ==
    CrawlPageScanned(url, rest, html, vis, ScanLinks(html, rest, vis))

\* The body of the page loop for the URL popped off the queue.
CrawlUrl(url, rest, ok, html) ==
    IF url \in visited
    THEN /\ to_visit' = rest
         /\ UNCHANGED <<visited, pages, enqueued, page_gets>>
    ELSE IF ok
    THEN CrawlPage(url, rest, html, MarkVisited(visited, url))
    ELSE /\ to_visit' = AfterPageFailure(rest, url)
         /\ page_gets' = Bump(page_gets, url)
         /\ UNCHANGED <<visited, pages, enqueued>>

\* One iteration of `while to_visit`; ok says whether driver.get and the
\* wait for the body succeed, html is the page source then.
CrawlIteration(ok, html) ==
    /\ crawl_pc = "Crawling"
    /\ to_visit # <<>>
    /\ CrawlUrl(Pop(to_visit).url, Pop(to_visit).rest, ok, html)
    /\ UNCHANGED <<crawl_pc, mapVars, orchVars, resVars, procVars>>

CrawlFetchOk == \E html \in PageSources : CrawlIteration(TRUE, html)

CrawlFetchFail == CrawlIteration(FALSE, <<>>)

\* The a[href] values of the pages of a site whose pages do not change
\* during the crawl.
SiteHrefs ==
    { <<"/", "a">>,
      SiteBase \o <<"/", "b">>,
      <<"https:", "//", "site.example", ".evil.com", "/", "x">> }

\* The URLs a crawl of such a site can request.
SitePages ==
    { SiteBase,
      SiteBase \o <<"/", "a">>,
      SiteBase \o <<"/", "b">>,
      <<"https:", "//", "site.example", ".evil.com", "/", "x">> }

Sites ==
    { s \in [SitePages -> SeqsUpTo(SiteHrefs, MaxLinks)] :
        s[<<"https:", "//", "site.example", ".evil.com", "/", "x">>] = <<>> }

NoSite == [u \in SitePages |-> <<>>]
SiteIdle == site = NoSite

\* An iteration of the page loop on the site: driver.get succeeds and
\* page_source is the page the site has at the URL.
CrawlSiteFetch ==
    /\ crawl_pc = "Crawling"
    /\ to_visit # <<>>
    /\ CrawlIteration(TRUE, site[Pop(to_visit).url])

\* The loop ends: driver.quit(), pages.json is written, pages returned.
CrawlFinish ==
    /\ crawl_pc = "Crawling"
    /\ to_visit = <<>>
    /\ crawl_pc' = "Done"
    /\ UNCHANGED <<to_visit, visited, pages, enqueued, page_gets, mapVars, orchVars, resVars, procVars>>

----------------------------------------------------------------------------
\* _download_assets_recursively

\* The asset URLs of the model.
AssetURLs == {CssA, CssT, FontF, CdnImg}

\* The local_path the entry for u carries in the assets_to_download argument.
InputLocalPath(u) ==
    CASE u = CssA   -> <<"assets", "/", "css", "/", "a.css">>
      [] u = CssT   -> <<"assets", "/", "css", "/", "theme">>
      [] u = FontF  -> <<"assets", "/", "css", "/", "font.woff2">>
      [] u = CdnImg -> <<"assets", "/", "external", "/", "cdn.example", "/", "img.png">>

\* The "type" the page passes record for u.
InputType(u) ==
    CASE u \in {CssA, CssT} -> "css"
      [] u = CdnImg         -> "image"
      [] OTHER              -> "asset"

\* The assets_to_download arguments the resolver is run on.
InputManifests ==
    { [u \in keys |-> [local_path |-> InputLocalPath(u), type |-> InputType(u)]]
        : keys \in SUBSET AssetURLs }

\* The url(...) values a served stylesheet may carry.
CssRefs ==
    { <<"font.woff2">>,
      <<"a.css">>,
      <<"theme">>,
      CdnImg }

\* The stylesheet texts served.
CssTexts == SeqsUpTo(CssRefs, MaxRefs)

\* What requests.get(u) may answer: ok is FALSE when the call or
\* raise_for_status raises a RequestException; css says whether the
\* Content-Type header names css; body is the content, as the url(...) values
\* it carries (no other text is modelled).
FailedResponse == [ok |-> FALSE, css |-> FALSE, body |-> <<>>]

Responses(u) ==
    { [ok |-> TRUE, css |-> c, body |-> b]
        : c \in IF u \in {CssA, CssT} THEN BOOLEAN ELSE {FALSE},
          b \in IF u \in {CssA, CssT} THEN CssTexts ELSE {<<>>} }

\* The loop of extract_new_urls_from_css over cssutils.getUrls(sheet); an
\* exception ends it and what was collected so far is returned.
RECURSIVE ExtractLoop(_, _, _)
ExtractUrl(refs, base, new_urls, absolute_url) ==
    IF IsException(absolute_url) THEN new_urls
    ELSE ExtractLoop(Tail(refs), base,
                     IF absolute_url # base THEN Append(new_urls, absolute_url)
                     ELSE new_urls)

ExtractLoop(refs, base, new_urls) ==
    IF refs = <<>> THEN new_urls
    ELSE IF refs[1] = <<>> \/ refs[1][1] = "data:"
    THEN ExtractLoop(Tail(refs), base, new_urls)
    ELSE ExtractUrl(refs, base, new_urls, urljoin(base, refs[1]))

extract_new_urls_from_css(css_text, base) == ExtractLoop(css_text, base, <<>>)

\* The resolver loop without its processed_urls.add.
MarkProcessedNot(processed, url) == processed

\* processed_urls.add(url_to_download)
MarkProcessed(processed, url) == processed \cup {url}

\* f[key] = value on a dict
DictSet(f, key, value) ==
    [k \in DOMAIN f \cup {key} |-> IF k = key THEN value ELSE f[k]]

KeepEntryRetyped(assets, new_url) ==
    DictSet(assets, new_url, [assets[new_url] EXCEPT !.type = "asset"])

\* Line 81 for a new_url the manifest already holds: nothing is assigned.
KeepEntry(assets, new_url) == assets

\* Line 82 for a new_url the manifest does not hold yet, local_path being what
\* _generate_local_path answered.
RECURSIVE EnqueueNew(_, _, _, _, _)
InsertNew(new_urls, queue, assets, processed, base, local_path) ==
    IF IsException(local_path)
    THEN [queue |-> queue, assets |-> assets, raised |-> TRUE]
    ELSE EnqueueNew(Tail(new_urls), queue,
                    DictSet(assets, new_urls[1], [local_path |-> local_path]),
                    processed, base)

\* The for loop over new_urls (lines 78-82): the queue and the manifest it
\* leaves, and whether _generate_local_path raised out of it.
EnqueueNew(new_urls, queue, assets, processed, base) ==
    IF new_urls = <<>>
    THEN [queue |-> queue, assets |-> assets, raised |-> FALSE]
    ELSE IF new_urls[1] \in processed
    THEN EnqueueNew(Tail(new_urls), queue, assets, processed, base)
    ELSE IF new_urls[1] \in DOMAIN assets
    THEN EnqueueNew(Tail(new_urls), queue \cup {new_urls[1]},
                    KeepEntry(assets, new_urls[1]), processed, base)
    ELSE InsertNew(new_urls, queue \cup {new_urls[1]}, assets, processed, base,
                   generate_local_path(new_urls[1], base))

\* What is written to dist/<local_path>: response.content.
StoredContent(response) == response.body

ResolveIdle ==
    /\ assets_to_download \in InputManifests
    /\ download_queue = {}
    /\ processed_urls = {}
    /\ dist_files = <<>>
    /\ res_pc = "Idle"
    /\ initial_keys = {}
    /\ requests_log = <<>>
    /\ scanned = {}
    /\ last_failure = <<>>

\* Lines 51-52.
StartResolve ==
    /\ res_pc = "Idle"
    /\ res_pc' = "Loop"
    /\ download_queue' = DOMAIN assets_to_download
    /\ processed_urls' = {}
    /\ initial_keys' = DOMAIN assets_to_download
    /\ UNCHANGED <<assets_to_download, dist_files, requests_log, scanned,
                   last_failure,
                   mapVars, orchVars, crawlVars, procVars>>

\* Lines 74-82 done: after is what the loop over new_urls left.
ResolveScanned(u, after) ==
    /\ scanned' = scanned \cup {u}
    /\ download_queue' = after.queue
    /\ assets_to_download' = after.assets
    /\ res_pc' = IF after.raised THEN "Raised" ELSE "Loop"

\* The except branch of lines 84-85: the failure is logged and the loop goes
\* on with the queue as it is.
AfterAssetFailure(queue, u) == queue

\* Lines 66-85: the request, the file and the scan of a stylesheet.
ResolveFetch(u, response, queue1, processed1, local_path) ==
    /\ requests_log' = Bump(requests_log, u)
    /\ processed_urls' = processed1
    /\ IF ~ response.ok
       THEN /\ download_queue' = AfterAssetFailure(queue1, u)
            /\ UNCHANGED <<assets_to_download, dist_files, res_pc, scanned>>
       ELSE /\ dist_files' = DictSet(dist_files, local_path, StoredContent(response))
            /\ IF response.css \/ EndsWithCss(local_path)
               THEN ResolveScanned(u,
                        EnqueueNew(extract_new_urls_from_css(response.body, u),
                                   queue1, assets_to_download, processed1,
                                   cfg_base_url))
               ELSE /\ download_queue' = queue1
                    /\ UNCHANGED <<assets_to_download, res_pc, scanned>>

\* Lines 59-62: the URL is marked and its local path looked up, or mapped
\* when the manifest has no entry for it.
ResolveUrl(u, response, queue1, processed1, local_path) ==
    IF IsException(local_path)
    THEN /\ res_pc' = "Raised"
         /\ download_queue' = queue1
         /\ processed_urls' = processed1
         /\ UNCHANGED <<assets_to_download, dist_files, requests_log, scanned>>
    ELSE ResolveFetch(u, response, queue1, processed1, local_path)

\* One iteration of `while download_queue`, u being the URL that set.pop()
\* hands out and response what requests.get answers.
ResolveIteration(u, response) ==
    /\ res_pc = "Loop"
    /\ u \in download_queue
    /\ IF u \in processed_urls
       THEN /\ download_queue' = download_queue \ {u}
            /\ UNCHANGED <<assets_to_download, processed_urls, dist_files,
                           res_pc, requests_log, scanned>>
       ELSE ResolveUrl(u, response, download_queue \ {u},
                       MarkProcessed(processed_urls, u),
                       IF u \in DOMAIN assets_to_download
                       THEN assets_to_download[u].local_path
                       ELSE generate_local_path(u, cfg_base_url))
    /\ UNCHANGED <<initial_keys, mapVars, orchVars, crawlVars, procVars>>

ResolveFetchOk ==
    \E u \in download_queue : \E response \in Responses(u) :
        /\ ResolveIteration(u, response)
        /\ last_failure' = <<>>

\* The RequestExceptions of line 84: transient ones (requests.Timeout,
\* requests.ConnectionError, the HTTPError raise_for_status raises for a 5xx
\* status) and permanent ones (the HTTPError for a 4xx status).
FailureKinds == {"transient", "permanent"}

ResolveFetchFail ==
    \E u \in download_queue : \E kind \in FailureKinds :
        /\ ResolveIteration(u, FailedResponse)
        /\ last_failure' = <<[url |-> u, kind |-> kind]>>

\* An iteration whose request succeeds and whose mkdir / open / write (lines
\* 68-72) raises OSError: not a RequestException, so it leaves the function.
ResolveStoreRaises(u) ==
    /\ res_pc = "Loop"
    /\ u \notin processed_urls
    /\ u \in DOMAIN assets_to_download
    /\ res_pc' = "Raised"
    /\ download_queue' = download_queue \ {u}
    /\ processed_urls' = MarkProcessed(processed_urls, u)
    /\ requests_log' = Bump(requests_log, u)
    /\ last_failure' = <<>>
    /\ UNCHANGED <<assets_to_download, dist_files, initial_keys, scanned,
                   mapVars, orchVars, crawlVars, procVars>>

ResolveStoreFail == \E u \in download_queue : ResolveStoreRaises(u)

ResolveReturnEarly ==
    /\ res_pc = "Loop"
    /\ res_pc' = "Returned"
    /\ UNCHANGED <<assets_to_download, download_queue, processed_urls, dist_files,
                   initial_keys, requests_log, scanned, last_failure,
                   mapVars, orchVars, crawlVars, procVars>>

\* The loop ends and the function returns.
ResolveReturn ==
    /\ res_pc = "Loop"
    /\ download_queue = {}
    /\ res_pc' = "Returned"
    /\ UNCHANGED <<assets_to_download, download_queue, processed_urls, dist_files,
                   initial_keys, requests_log, scanned, last_failure,
                   mapVars, orchVars, crawlVars, procVars>>

----------------------------------------------------------------------------
\* ContentProcessor.process_pages and the process command

\* Python's None
None == <<"!None">>

\* The form handler URLs the process command is run with: the option left out,
\* given empty, or given.
HandlerUrl == <<"https:", "//", "h.example", "/", "submit">>
HandlerUrls == {None, <<>>, HandlerUrl}

TildaFormAction == <<"https:", "//", "tilda.example", "/", "formshandler">>
DataUri == <<"data:", "image/png;base64,AAAA">>
ScriptJ == SiteBase \o <<"/", "js", "/", "app.js">>

\* An element of a page: an img, a link rel=stylesheet, a script or a form.
\* ref is the src / href / action value, method a form's method; an absent
\* attribute is the empty value.
Element(tag, ref, method) == [tag |-> tag, ref |-> ref, method |-> method]

\* The elements a page of pages.json may carry.
PageElements ==
    { Element("img", CdnImg, ""),
      Element("img", DataUri, ""),
      Element("link", CssA \o <<"?", "v=1">>, ""),
      Element("script", ScriptJ, ""),
      Element("form", TildaFormAction, "get"),
      Element("form", <<>>, "") }

\* The page URLs of pages.json.
PageUrls ==
    { SiteBase,
      SiteBase \o <<"/">>,
      SiteBase \o <<"/", "a", "/", "b", "/">> }

\* The page records of pages.json: head says whether the document has a head
\* element; no page of the model brings a base element of its own.
InputPages ==
    { [url |-> u, head |-> h, elems |-> e]
        : u \in PageUrls, h \in BOOLEAN, e \in SeqsUpTo(PageElements, MaxElems) }

\* The "type" recorded for a reference found under the tag.
AssetType(tag) ==
    CASE tag = "img"    -> "image"
      [] tag = "link"   -> "css"
      [] tag = "script" -> "js"

\* local_path_html: the local path, followed by the query string if any.
LocalPathHtml(local_path_disk, query) ==
    IF query # <<>> THEN local_path_disk \o <<"?">> \o query
    ELSE local_path_disk

\* _process_images_in_page / _process_css_in_page / _process_js_in_page: the
\* loop over the elements of one tag, from element i on.  The result is the
\* elements and the asset_mapping the loop leaves, and whether
\* _generate_local_path raised out of it.
RECURSIVE RewritePass(_, _, _, _, _)
RewriteElem(elems, i, tag, mapping, base, local_path_disk) ==
    IF IsException(local_path_disk)
    THEN [elems |-> elems, mapping |-> mapping, raised |-> TRUE]
    ELSE RewritePass(
           [elems EXCEPT ![i].ref =
               LocalPathHtml(local_path_disk, urlparse(elems[i].ref).query)],
           i + 1, tag,
           DictSet(mapping, elems[i].ref,
                   [local_path |-> local_path_disk, type |-> AssetType(tag)]),
           base)

RewritePass(elems, i, tag, mapping, base) ==
    IF i > Len(elems)
    THEN [elems |-> elems, mapping |-> mapping, raised |-> FALSE]
    ELSE IF elems[i].tag = tag /\ elems[i].ref # <<>>
    THEN RewriteElem(elems, i, tag, mapping, base,
                     generate_local_path(elems[i].ref, base))
    ELSE RewritePass(elems, i + 1, tag, mapping, base)

\* The next pass, unless an earlier one raised.
NextPass(r, tag, base) ==
    IF r.raised THEN r ELSE RewritePass(r.elems, 1, tag, r.mapping, base)

\* Lines 52-54: the image, stylesheet and script passes in this order.
RewriteAssets(elems, mapping, base) ==
    NextPass(NextPass(RewritePass(elems, 1, "img", mapping, base), "link", base),
             "script", base)

\* `not self.form_handler_url`
NoHandler(handler) == handler \in {None, <<>>}

\* The body of the loop over forms with the action left alone.
UpdateFormNot(form, handler) == [form EXCEPT !.method = "post"]

\* Lines 153-154.
UpdateForm(form, handler) == [form EXCEPT !.ref = handler, !.method = "post"]

\* _update_forms_in_page with the early return dropped.
update_forms_always(elems, handler) ==
    [i \in 1..Len(elems) |->
        IF elems[i].tag = "form" THEN UpdateForm(elems[i], handler) ELSE elems[i]]

\* _update_forms_in_page
update_forms_in_page(elems, handler) ==
    IF NoHandler(handler) THEN elems
    ELSE [i \in 1..Len(elems) |->
            IF elems[i].tag = "form" THEN UpdateForm(elems[i], handler)
            ELSE elems[i]]

\* path.strip('/')
RECURSIVE StripSlashes(_)
StripSlashes(path) ==
    IF path = <<>> THEN <<>>
    ELSE IF path[1] = "/" THEN StripSlashes(Tail(path))
    ELSE IF path[Len(path)] = "/" THEN StripSlashes(SubSeq(path, 1, Len(path) - 1))
    ELSE path

\* Path(clean_path).name: the last component, pathlib having dropped the
\* empty and the "." components; "" when there is none.
LastComponent(segs) == IF segs = <<>> THEN "" ELSE segs[Len(segs)]

PathName(clean_path) ==
    LastComponent(SelectSeq(SplitSlash(clean_path), LAMBDA c : c \notin {"", "."}))

\* The filename with every page named index.html.
FilenameOfNameIndex(name) == <<"index.html">>

\* Lines 74-76.
FilenameOfName(name) ==
    IF name = "" THEN <<"index.html">> ELSE <<name, ".html">>

\* Lines 69-76: the filename for the path of the page URL.
FilenameOfPath(path) ==
    IF path = <<"/">> \/ path = <<>> THEN <<"index.html">>
    ELSE FilenameOfName(PathName(StripSlashes(path)))

\* Lines 66-76.
PageFilename(page_url) == FilenameOfPath(urlparse(page_url).path)

\* Lines 59-63: the base element put first into the head, if there is a head.
BaseTag(page) == IF page.head THEN page.url ELSE <<>>

\* The record _process_page returns: the page's own fields (source is the page
\* as it was read), the html after processing and the filename.
ProcessedPage(page, elems, handler) ==
    [url      |-> page.url,
     source   |-> page,
     html     |-> [base  |-> BaseTag(page),
                   elems |-> update_forms_in_page(elems, handler)],
     filename |-> PageFilename(page.url)]

\* Lines 137-141: each page written to dist/<filename>, in list order.
RECURSIVE WritePages(_, _)
WritePages(list, files) ==
    IF list = <<>> THEN files
    ELSE WritePages(Tail(list), DictSet(files, list[1].filename, list[1].html))

ProcIdle ==
    /\ form_handler_url \in HandlerUrls
    /\ processed_pages = <<>>
    /\ dist_pages = <<>>
    /\ proc_pc = "Idle"
    /\ raised_on = <<>>
    /\ warnings = 0

\* process, lines 113-116: logger.warning("No form handler URL provided.
\* Forms will not be updated.") when the option is not given.
WarnNoHandler(logged, url) == IF NoHandler(url) THEN logged + 1 ELSE logged

\* _update_forms_in_page, lines 147-149: logger.warning("`form_handler_url`
\* not provided to ContentProcessor. Skipping form action updates.") on each
\* call without a handler URL.
WarnSkipping(logged, handler) ==
    IF NoHandler(handler) THEN logged + 1 ELSE logged

\* process, lines 110-128: configuration and pages.json are read and the
\* ContentProcessor is built.
ProcessStarted(url) ==
    /\ proc_pc = "Idle"
    /\ proc_pc' = "Processing"
    /\ form_handler_url' = url
    /\ processed_pages' = <<>>
    /\ warnings' = WarnNoHandler(warnings, url)
    /\ UNCHANGED <<dist_pages, raised_on, mapVars, crawlVars, resVars>>

\* The process command run from the command line with its option.
ProcessStart == ProcessStarted(form_handler_url) /\ UNCHANGED orchVars

\* One page through _process_page, r being what the asset passes left.  An
\* exception leaves process_pages and process catches it: sys.exit(1).
PageProcessed(page, r) ==
    /\ assets_to_download' = r.mapping
    /\ IF r.raised
       THEN /\ proc_pc' = "Exit1"
            /\ raised_on' = <<page.elems>>
            /\ UNCHANGED <<processed_pages, warnings>>
       ELSE /\ processed_pages' =
                  Append(processed_pages,
                         ProcessedPage(page, r.elems, form_handler_url))
            /\ warnings' = WarnSkipping(warnings, form_handler_url)
            /\ UNCHANGED <<proc_pc, raised_on>>

\* One iteration of the loop of process_pages, on the next page of pages.json.
\* processor.asset_mapping is the dict handed to the resolver later.
ProcessPageOf(pages_json) ==
    /\ proc_pc = "Processing"
    /\ Len(processed_pages) < MaxPages
    /\ \E page \in pages_json :
          PageProcessed(page,
                        RewriteAssets(page.elems, assets_to_download, cfg_base_url))
    /\ UNCHANGED <<form_handler_url, dist_pages, mapVars, orchVars, crawlVars,
                   download_queue, processed_urls, dist_files, res_pc,
                   initial_keys, requests_log, scanned, last_failure>>

ProcessPage == ProcessPageOf(InputPages)

\* process, lines 129-142: process_pages has returned and the pages are
\* written into a fresh dist/.
ProcessWritePages ==
    /\ proc_pc = "Processing"
    /\ proc_pc' = "Written"
    /\ dist_pages' = WritePages(processed_pages, <<>>)
    /\ UNCHANGED <<form_handler_url, processed_pages, raised_on, warnings,
                   mapVars, orchVars, crawlVars, resVars>>

\* process, line 145: the resolver is called on processor.asset_mapping.
ProcessDownload ==
    /\ proc_pc = "Written"
    /\ StartResolve

\* process, lines 146-150: the resolver has returned, or raised and
\* sys.exit(1) is called.
ProcessExit ==
    /\ proc_pc = "Written"
    /\ res_pc \in {"Returned", "Raised"}
    /\ proc_pc' = IF res_pc = "Returned" THEN "Done" ELSE "Exit1"
    /\ UNCHANGED <<form_handler_url, processed_pages, dist_pages, raised_on,
                   warnings, mapVars, orchVars, crawlVars, resVars>>

----------------------------------------------------------------------------
\* The migrate command (main.py, lines 184-211).  Each step is a click command
\* invoked in the same process: a command that fails calls sys.exit(1), and
\* the SystemExit is not an Exception, so it leaves migrate as well.

MigrateSteps == <<"Extract", "DeployHandler", "Process", "DeployStatic">>

\* What deployer.deploy_form_handler_function() returns when it does not
\* raise: the URL of the deployed function, or None when the deployment is
\* skipped (the two cases deploy_handler tells apart at lines 161-164).
DeployHandlerResults == {None, HandlerUrl}

MigIdle ==
    /\ mig_pc = "Idle"
    /\ form_url = None
    /\ steps = <<>>

\* Step 1, line 191: ctx.invoke(extract).  Only whether the command ended
\* with sys.exit(1) is kept here; what it collects is the subject of
\* SpecCrawl.
MigrateExtract ==
    /\ mig_pc = "Idle"
    /\ steps' = Append(steps, "Extract")
    /\ \E ok \in BOOLEAN : mig_pc' = IF ok THEN "Extracted" ELSE "Exit1"
    /\ UNCHANGED <<form_url, mapVars, crawlVars, resVars, procVars, agentVars, relVars, cssVars, siteVars>>

\* Step 2, lines 194-198: the deployer is built and the handler deployed; an
\* exception reaches the except branch of lines 209-211.
MigrateDeployHandler ==
    /\ mig_pc = "Extracted"
    /\ steps' = Append(steps, "DeployHandler")
    /\ \E raised \in BOOLEAN : \E url \in DeployHandlerResults :
          IF raised
          THEN mig_pc' = "Exit1" /\ UNCHANGED form_url
          ELSE mig_pc' = "HandlerDeployed" /\ form_url' = url
    /\ UNCHANGED <<mapVars, crawlVars, resVars, procVars, agentVars, relVars, cssVars, siteVars>>

\* The form_handler_url argument of line 202 dropped: process takes its
\* default.
InvokeProcessDefault(url) == None

\* Line 202: the value passed as form_handler_url to process.
InvokeProcess(url) == url

\* Step 3, line 202: ctx.invoke(process, ...); the command then runs as in
\* SpecProcess.
MigrateProcess ==
    /\ mig_pc = "HandlerDeployed"
    /\ ProcessStarted(InvokeProcess(form_url))
    /\ steps' = Append(steps, "Process")
    /\ UNCHANGED <<mig_pc, form_url, agentVars, relVars, cssVars, siteVars>>

\* The pages extract saved for process to read: pages of at most one
\* element with a head.
MigratePages == {page \in InputPages : page.head /\ Len(page.elems) <= 1}

\* process_pages within step 3.
MigrateProcessPage == ProcessPageOf(MigratePages)

\* process has called sys.exit(1): the SystemExit leaves migrate.
MigrateExit ==
    /\ mig_pc = "HandlerDeployed"
    /\ proc_pc = "Exit1"
    /\ mig_pc' = "Exit1"
    /\ UNCHANGED <<form_url, steps, mapVars, crawlVars, resVars, procVars, agentVars, relVars, cssVars, siteVars>>

\* Step 4, line 206: ctx.invoke(deploy_static), reached when process has
\* returned.
MigrateDeployStatic ==
    /\ mig_pc = "HandlerDeployed"
    /\ proc_pc = "Done"
    /\ steps' = Append(steps, "DeployStatic")
    /\ \E ok \in BOOLEAN : mig_pc' = IF ok THEN "StaticDeployed" ELSE "Exit1"
    /\ UNCHANGED <<form_url, mapVars, crawlVars, resVars, procVars, agentVars, relVars, cssVars, siteVars>>

----------------------------------------------------------------------------
\* MigrationAgent (core/agent.py) and the deployer methods it calls
\* (deployers/google_cloud_deployer.py).

\* Before MigrationAgent(config, dry_run) is called.
AgentUnbuilt ==
    /\ agent_pc = "Unbuilt"
    /\ dry_run = FALSE
    /\ agent_cfg = [monitoring |-> FALSE, auto_backup |-> FALSE]
    /\ cloud_ops = <<>>

\* How often the deployer did the thing, up to the saturation of Bump.
Count(ops, what) == IF what \in DOMAIN ops THEN ops[what] ELSE 0

\* A guard 'if self.dry_run:' that never returns early.
DryRunSkipsNever(dry) == FALSE

\* The guard 'if self.dry_run: ... return' that opens create_vm,
\* upload_content, configure_web_server, setup_ssl, setup_monitoring,
\* setup_backups and health_check.
DryRunSkips(dry) == dry

\* create_vm after its guard: stage phases of it complete before it returns
\* (stage 3) or raises: an existing VM is deleted, the instance is inserted,
\* its address is read.
CreateVmDone(ops, exists, stage) ==
    LET deleted == IF exists /\ stage >= 1 THEN Bump(ops, "vm_deleted") ELSE ops
    IN  IF stage >= 2 THEN Bump(deleted, "vm_created") ELSE deleted

create_vm(ops, dry, exists, stage) ==
    IF DryRunSkips(dry) THEN Bump(ops, "create_vm")
    ELSE CreateVmDone(Bump(ops, "create_vm"), exists, stage)

\* upload_content after its guard: the scp command (stage 1) and the ssh
\* command that unpacks (stage 2).
UploadDone(ops, stage) ==
    LET copied == IF stage >= 1
                  THEN Bump(Bump(ops, "upload"), "remote_command")
                  ELSE ops
    IN  IF stage >= 2 THEN Bump(copied, "remote_command") ELSE copied

upload_content(ops, dry, stage) ==
    IF DryRunSkips(dry) THEN ops ELSE UploadDone(ops, stage)

\* configure_web_server, setup_ssl, setup_monitoring, setup_backups and
\* health_check after their guard: gcloud compute ssh commands are run.
RemoteSetup(ops, dry) ==
    IF DryRunSkips(dry) THEN ops ELSE Bump(ops, "remote_command")

\* __init__, lines 23-37.
AgentConstruct ==
    /\ agent_pc = "Unbuilt"
    /\ agent_pc' = "Built"
    /\ dry_run' \in BOOLEAN
    /\ agent_cfg' \in [monitoring : BOOLEAN, auto_backup : BOOLEAN]
    /\ UNCHANGED <<cloud_ops, migVars, relVars, cssVars, siteVars, mapVars, crawlVars, resVars, procVars>>

\* A step of run that calls no deployer method changing the cloud: it
\* returns, or raises and run re-raises (lines 71-74).
AgentStep(from, to) ==
    /\ agent_pc = from
    /\ \E ok \in BOOLEAN : agent_pc' = IF ok THEN to ELSE "Raised"
    /\ UNCHANGED <<dry_run, agent_cfg, cloud_ops,
                   migVars, relVars, cssVars, siteVars, mapVars, crawlVars, resVars, procVars>>

\* Step 1, validate_configuration (deployer.test_connection only lists).
AgentValidate == AgentStep("Built", "Validated")
\* Step 2, extract_from_tilda.
AgentExtract == AgentStep("Validated", "Extracted")
\* Step 3, process_content.
AgentProcess == AgentStep("Extracted", "Processed")

\* A call of a deployer method from run: ops is what it left, ok whether it
\* returned.
AgentDeployerCall(from, to, ops, ok) ==
    /\ agent_pc = from
    /\ agent_pc' = IF ok THEN to ELSE "Raised"
    /\ cloud_ops' = ops
    /\ UNCHANGED <<dry_run, agent_cfg,
                   migVars, relVars, cssVars, siteVars, mapVars, crawlVars, resVars, procVars>>

CreateVmStages == 0..3
UploadStages == 0..2

\* Step 4, deploy_to_google_cloud: self.deployer.create_vm().
AgentCreateVm ==
    \E exists \in BOOLEAN : \E stage \in CreateVmStages :
        /\ DryRunSkips(dry_run) => (~ exists /\ stage = 3)
        /\ AgentDeployerCall("Processed", "VmCreated",
                             create_vm(cloud_ops, dry_run, exists, stage),
                             DryRunSkips(dry_run) \/ stage = 3)

\* self.deployer.upload_content(self.processed_data).
AgentUploadContent ==
    \E stage \in UploadStages :
        /\ DryRunSkips(dry_run) => stage = 2
        /\ AgentDeployerCall("VmCreated", "Uploaded",
                             upload_content(cloud_ops, dry_run, stage),
                             DryRunSkips(dry_run) \/ stage = 2)

\* One of the deployer calls that run ssh commands.
AgentRemoteSetup(from, to) ==
    \E ok \in BOOLEAN :
        /\ DryRunSkips(dry_run) => ok
        /\ AgentDeployerCall(from, to, RemoteSetup(cloud_ops, dry_run), ok)

\* self.deployer.configure_web_server().
AgentConfigureWebServer == AgentRemoteSetup("Uploaded", "Configured")
\* self.deployer.setup_ssl(), the last call of step 4.
AgentSetupSsl == AgentRemoteSetup("Configured", "Deployed")

\* Step 5, setup_forms: only the FormHandler is called.
AgentSetupForms == AgentStep("Deployed", "FormsSet")

\* Step 6, finalize_migration: setup_monitoring and setup_backups when the
\* configuration asks for them, then health_check.
AgentSetupMonitoring ==
    IF agent_cfg.monitoring
    THEN AgentRemoteSetup("FormsSet", "Monitored")
    ELSE AgentDeployerCall("FormsSet", "Monitored", cloud_ops, TRUE)

AgentSetupBackups ==
    IF agent_cfg.auto_backup
    THEN AgentRemoteSetup("Monitored", "BackedUp")
    ELSE AgentDeployerCall("Monitored", "BackedUp", cloud_ops, TRUE)

AgentHealthCheck == AgentRemoteSetup("BackedUp", "Done")

----------------------------------------------------------------------------
\* ContentProcessor.relativize_links (content_processor.py, lines 423-457).
\* A document is the sequence of its elements that carry a URL, each as its
\* tag, the attribute holding the URL and the URL.

\* The dict tags of lines 437-443.
RelTags ==
    [t \in {"a", "link", "script", "img", "source"} |->
        IF t \in {"a", "link"} THEN "href" ELSE "src"]

RelItem(tag, attr, url) == [tag |-> tag, attr |-> attr, url |-> url]

\* The elements of the documents given to relativize_links.
RelItems ==
    { RelItem("a", "href", SiteBase \o <<"/", "about">>),
      RelItem("a", "href", <<"https:", "//", "site.example", ".evil.com", "/", "x">>),
      RelItem("link", "href", CssA \o <<"?", "v=1">>),
      RelItem("script", "src", ScriptJ),
      RelItem("img", "src", CdnImg),
      RelItem("source", "src", <<"media", "/", "v.mp4">>),
      RelItem("iframe", "src", SiteBase \o <<"/", "frame">>),
      RelItem("img", "href", SiteBase \o <<"/", "about">>) }

RelDocuments == SeqsUpTo(RelItems, MaxElems)

\* The base_url arguments.
RelBases == {SiteBase, <<"https:", "//", "cdn.example">>}

\* Every URL counted as one of the base domain.
SameDomainAlways(netloc, base_domain) == TRUE

\* Line 451: url_parsed.netloc == base_domain.
SameDomain(netloc, base_domain) == netloc = base_domain

\* Line 453: f".{url_parsed.path}".
RelativePathOf(url_parsed) == <<".">> \o url_parsed.path

\* Lines 445-455 for one element: soup.find_all(tag, **{attr: True}) finds it
\* when tags maps its tag to the attribute it carries.
RelativizeItem(item, base_domain) ==
    IF /\ item.tag \in DOMAIN RelTags
       /\ RelTags[item.tag] = item.attr
       /\ SameDomain(urlparse(item.url).netloc, base_domain)
    THEN [item EXCEPT !.url = RelativePathOf(urlparse(item.url))]
    ELSE item

relativize_links(html_content, url) ==
    [i \in 1..Len(html_content) |->
        RelativizeItem(html_content[i], urlparse(url).netloc)]

RelIdle == rel_last = <<>>

\* One call of relativize_links.
CallRelativizeLinks ==
    /\ \E html \in RelDocuments : \E url \in RelBases :
          rel_last' = << [html |-> html, base |-> url,
                         out |-> relativize_links(html, url)] >>
    /\ UNCHANGED <<migVars, agentVars, cssVars, siteVars, mapVars, crawlVars,
                   resVars, procVars>>

----------------------------------------------------------------------------
\* ContentProcessor._parse_and_replace_css_urls (content_processor.py, lines
\* 215-249).  A stylesheet text is the sequence of its url(...) values, as in
\* the resolver.

\* The stylesheet texts and base_url arguments the function is called with.
StylesheetTexts == SeqsUpTo(CssRefs \cup {DataUri}, MaxRefs)
StylesheetUrls == {CssA, CssT}

\* The except branch returning an empty text.
CssFallbackEmpty(css_text) == <<>>

\* Lines 247-249: the except branch logs and returns css_text.
CssFallback(css_text) == css_text

\* Lines 241-243: each url(...) value that has a replacement is replaced.
ReplaceUrls(css_text, urls_to_replace) ==
    [i \in 1..Len(css_text) |->
        IF css_text[i] \in DOMAIN urls_to_replace
        THEN urls_to_replace[css_text[i]]
        ELSE css_text[i]]

\* The for loop of lines 224-238 and what follows it: the text returned, the
\* manifest as the call leaves it, and whether an exception was caught.
RECURSIVE ReplaceLoop(_, _, _, _, _, _)
\* Lines 236-238 for the reference refs[1], local_path being what
\* _generate_local_path answered.
ReplaceMapped(refs, css_text, url, assets, urls, base, absolute_url, local_path) ==
    IF IsException(local_path)
    THEN [text |-> CssFallback(css_text), assets |-> assets, raised |-> TRUE]
    ELSE ReplaceLoop(Tail(refs), css_text, url,
                     DictSet(assets, absolute_url,
                             [local_path |-> local_path, type |-> "asset"]),
                     DictSet(urls, refs[1], local_path), base)

ReplaceLoop(refs, css_text, url, assets, urls_to_replace, base) ==
    IF refs = <<>>
    THEN [text |-> ReplaceUrls(css_text, urls_to_replace), assets |-> assets,
          raised |-> FALSE]
    ELSE IF refs[1] = <<>> \/ refs[1][1] = "data:"
    THEN ReplaceLoop(Tail(refs), css_text, url, assets, urls_to_replace, base)
    ELSE IF urljoin(url, refs[1]) = url
    THEN ReplaceLoop(Tail(refs), css_text, url, assets, urls_to_replace, base)
    ELSE ReplaceMapped(refs, css_text, url, assets, urls_to_replace, base,
                       urljoin(url, refs[1]),
                       generate_local_path(urljoin(url, refs[1]), base))

\* _parse_and_replace_css_urls(css_text, base_url) on the manifest assets,
\* base being the configured site base.
parse_and_replace_css_urls(css_text, url, assets, base) ==
    ReplaceLoop(css_text, css_text, url, assets, <<>>, base)

CssIdle == css_last = <<>>

\* One call of _parse_and_replace_css_urls, r being what it leaves.
CssCalled(css_text, url, r) ==
    /\ css_last' = << [css_text |-> css_text, base_url |-> url,
                       before |-> assets_to_download,
                       out |-> r.text, raised |-> r.raised] >>
    /\ assets_to_download' = r.assets

CallParseAndReplace ==
    /\ \E css_text \in StylesheetTexts : \E url \in StylesheetUrls :
          CssCalled(css_text, url,
                    parse_and_replace_css_urls(css_text, url,
                                               assets_to_download, cfg_base_url))
    /\ UNCHANGED <<download_queue, processed_urls, dist_files, res_pc,
                   initial_keys, requests_log, scanned, last_failure,
                   migVars, agentVars, relVars, siteVars, mapVars, crawlVars,
                   procVars>>

OrchIdle == MigIdle /\ AgentUnbuilt /\ RelIdle /\ CssIdle /\ SiteIdle

----------------------------------------------------------------------------
\* The specifications.

\* Calls of the path mapper.
InitMap == MapIdle /\ CrawlIdle /\ ResolveIdle /\ assets_to_download = <<>>
           /\ ProcIdle /\ OrchIdle /\ form_handler_url = None
NextMap == CallGenerateLocalPath
SpecMap == InitMap /\ [][NextMap]_vars

\* One run of extract_pages.
InitCrawl == MapIdle /\ cfg_base_url = SiteBase /\ CrawlIdle
             /\ ResolveIdle /\ assets_to_download = <<>>
             /\ ProcIdle /\ OrchIdle /\ form_handler_url = None
NextCrawl == StartCrawl \/ CrawlFetchOk \/ CrawlFetchFail \/ CrawlFinish
SpecCrawl == InitCrawl /\ [][NextCrawl]_vars
\* The loop of extract_pages keeps running while it has an iteration to run.
SpecCrawlFair == SpecCrawl /\ WF_vars(NextCrawl)

\* One run of extract_pages on a site in which no fetch fails.
InitCrawlSite == MapIdle /\ cfg_base_url = SiteBase /\ CrawlIdle
                 /\ ResolveIdle /\ assets_to_download = <<>>
                 /\ ProcIdle /\ form_handler_url = None
                 /\ MigIdle /\ AgentUnbuilt /\ RelIdle /\ CssIdle
                 /\ site \in Sites
NextCrawlSite == StartCrawl \/ CrawlSiteFetch \/ CrawlFinish
SpecCrawlSite == InitCrawlSite /\ [][NextCrawlSite]_vars

\* One run of _download_assets_recursively on a given manifest.
InitResolve == MapIdle /\ cfg_base_url = SiteBase /\ CrawlIdle /\ ResolveIdle
               /\ ProcIdle /\ OrchIdle /\ form_handler_url = None
NextResolve ==
    \/ StartResolve \/ ResolveFetchOk \/ ResolveFetchFail \/ ResolveStoreFail
    \/ ResolveReturn
SpecResolve == InitResolve /\ [][NextResolve]_vars

\* Calls of _parse_and_replace_css_urls on a given manifest.
InitCss == MapIdle /\ cfg_base_url = SiteBase /\ CrawlIdle /\ ResolveIdle
           /\ ProcIdle /\ OrchIdle /\ form_handler_url = None
NextCss == CallParseAndReplace
SpecCss == InitCss /\ [][NextCss]_vars

\* One run of the process command.  Of the resolver only its start and its
\* return are steps of it: asset_mapping is empty whenever line 145 is reached.
InitProcess == MapIdle /\ CrawlIdle /\ ResolveIdle /\ assets_to_download = <<>>
               /\ ProcIdle /\ OrchIdle
NextProcess ==
    \/ ProcessStart \/ ProcessPage \/ ProcessWritePages
    \/ ProcessDownload \/ ResolveReturn \/ ProcessExit
SpecProcess == InitProcess /\ [][NextProcess]_vars

\* One run of the migrate command.
InitMigrate == MapIdle /\ CrawlIdle /\ ResolveIdle /\ assets_to_download = <<>>
               /\ ProcIdle /\ form_handler_url = None /\ OrchIdle
NextMigrate ==
    \/ MigrateExtract \/ MigrateDeployHandler \/ MigrateProcess
    \/ MigrateProcessPage \/ ProcessWritePages \/ ProcessDownload \/ ResolveReturn
    \/ ProcessExit \/ MigrateExit \/ MigrateDeployStatic
SpecMigrate == InitMigrate /\ [][NextMigrate]_vars

\* One MigrationAgent built and run.
InitAgent == InitMigrate /\ cfg_base_url = SiteBase
NextAgent ==
    \/ AgentConstruct \/ AgentValidate \/ AgentExtract \/ AgentProcess
    \/ AgentCreateVm \/ AgentUploadContent \/ AgentConfigureWebServer
    \/ AgentSetupSsl \/ AgentSetupForms \/ AgentSetupMonitoring
    \/ AgentSetupBackups \/ AgentHealthCheck
SpecAgent == InitAgent /\ [][NextAgent]_vars

\* Calls of relativize_links.
InitRelativize == InitAgent
NextRelativize == CallRelativizeLinks
SpecRelativize == InitRelativize /\ [][NextRelativize]_vars

----------------------------------------------------------------------------
\* The claims about the path mapper, checked under SpecMap.

\* A call whose URL carries a ".." path segment.
HasDotDot(url) == Contains(urlparse(url).path, "..")

\* assets/<md5 of the cleaned URL><extension>
HashedFallback(url) ==
    assets_dir \o <<"/", md5hex(CleanUrl(urlparse(url)))>>
    \o PathSuffix(CleanUrl(urlparse(url)))

\* C1: for every non-empty URL, adversarial ones included, the local path the
\* path mapper returns starts with the assets root assets/.
C1_PathUnderAssetsRoot ==
    \A i \in 1..Len(map_calls) :
        map_calls[i].url # <<>>
            => StartsWith(map_calls[i].out, assets_dir \o <<"/">>)

\* C2: no returned local path holds a ".." segment, and a URL whose path
\* would carry ".." into the mapped path gets the hashed fallback name under
\* the assets root instead.
C2_DotDotGetsHashedFallback ==
    \A i \in 1..Len(map_calls) :
        /\ ~ Contains(map_calls[i].out, "..")
        /\ HasDotDot(map_calls[i].url)
              => map_calls[i].out = HashedFallback(map_calls[i].url)

\* C3: two calls of the path mapper on the same URL both return a local path,
\* and the same one, whatever was mapped in between.
C3_SamePathEveryCall ==
    \A i, j \in 1..Len(map_calls) :
        (i # j /\ map_calls[i].url = map_calls[j].url /\ map_calls[i].url # <<>>)
            => /\ ~ IsException(map_calls[i].out)
               /\ map_calls[i].out = map_calls[j].out

----------------------------------------------------------------------------
\* The claims about extract_pages, checked under SpecCrawl and SpecCrawlFair.

\* The host of a URL.
HostOf(url) == urlparse(url).netloc

\* C4: every URL appended to to_visit has the base URL's host.
C4_SameHostOnly ==
    \A u \in enqueued : HostOf(u) = HostOf(base_url)

\* C9: every run of extract_pages reaches its terminal state, whatever the
\* pages link to and whichever fetches fail.
C9_CrawlTerminates == <>(crawl_pc = "Done")

\* A finished crawl in which a URL failed, was linked again and was fetched
\* a second time.
C9_Witness ==
    /\ crawl_pc = "Done"
    /\ to_visit = <<>>
    /\ \E u \in DOMAIN page_gets : page_gets[u] = 2 /\ u \notin visited

\* C10: no two records of pages have the same url.
C10_NoDuplicatePages ==
    \A i, j \in 1..Len(pages) : i # j => pages[i].url # pages[j].url

\* Two pages were collected, one of them at the second request for its URL.
C10_Witness ==
    /\ Len(pages) >= 2
    /\ \E i \in 1..Len(pages) : page_gets[pages[i].url] = 2

----------------------------------------------------------------------------
\* The claims about _download_assets_recursively, checked under SpecResolve.

\* The run is over: the function returned, or an exception left it.
ResolveEnded == res_pc \in {"Returned", "Raised"}

\* The content stored for the manifest entry of u.
StoredFor(u) == dist_files[assets_to_download[u].local_path]

\* C5: no URL is requested more than once in a resolver run, and when the run
\* returns every key it started with was requested exactly once.
C5_FetchedAtMostOnce ==
    /\ \A u \in DOMAIN requests_log : requests_log[u] <= 1
    /\ res_pc = "Returned"
          => \A u \in initial_keys :
                u \in DOMAIN requests_log /\ requests_log[u] = 1

\* Two stylesheets that both reference the same font and each other were
\* fetched and scanned, and the run returned.
C5_Witness ==
    /\ res_pc = "Returned"
    /\ {CssA, CssT} \subseteq scanned
    /\ StoredFor(CssA) = << <<"font.woff2">>, <<"theme">> >>
    /\ StoredFor(CssT) = << <<"font.woff2">>, <<"a.css">> >>
    /\ requests_log[FontF] = 1

\* C6: when the run is over the manifest holds an entry for every URL that a
\* scanned stylesheet references through url(...).
C6_ManifestClosed ==
    ResolveEnded
        => \A s \in scanned :
              \A f \in SeqToSet(extract_new_urls_from_css(StoredFor(s), s)) :
                  f \in DOMAIN assets_to_download

\* The local paths of the manifest.
ManifestPaths ==
    {assets_to_download[k].local_path : k \in DOMAIN assets_to_download}

\* C7: when the run has returned every url(...) of a stored stylesheet is the
\* mapped local path of the asset it stood for (a reference to the
\* stylesheet itself is left as it was).
C7_StoredCssRewritten ==
    res_pc = "Returned"
        => \A s \in scanned :
              \A i \in 1..Len(StoredFor(s)) :
                  \/ StoredFor(s)[i] \in ManifestPaths
                  \/ urljoin(s, StoredFor(s)[i]) = s

\* C8: a resolver run ends with an empty download queue.
C8_EndsWithEmptyQueue == ResolveEnded => download_queue = {}

----------------------------------------------------------------------------
\* The claims about the process command, checked under SpecProcess.

\* The references among the elements that the asset passes look at.
AssetRefs(elems) ==
    {elems[k].ref : k \in {j \in 1..Len(elems) : elems[j].tag # "form"}}

\* The page was written to dist/ as it left _process_page.
Emitted(p) ==
    /\ p.filename \in DOMAIN dist_pages
    /\ dist_pages[p.filename] = p.html

\* The reference is the local path of a manifest entry, the query string of
\* the original reference after it if there is one.
IsManifestRef(ref, original) ==
    \E u \in DOMAIN assets_to_download :
        ref = LocalPathHtml(assets_to_download[u].local_path,
                            urlparse(original).query)

\* C11: a process run on pages that reference an asset (whose fetch then
\* fails) completes normally, and when it has completed every page handed to
\* it is emitted, each asset reference of it standing for a manifest entry
\* that has no stored content.
C11_GracefulDegradation ==
    /\ proc_pc # "Exit1"
    /\ proc_pc = "Done"
          => \A i \in 1..Len(processed_pages) :
                /\ Emitted(processed_pages[i])
                /\ \A k \in 1..Len(processed_pages[i].html.elems) :
                      processed_pages[i].source.elems[k].tag # "form"
                          => /\ IsManifestRef(processed_pages[i].html.elems[k].ref,
                                              processed_pages[i].source.elems[k].ref)
                             /\ processed_pages[i].html.elems[k].ref
                                    \notin DOMAIN dist_files

\* C14: with a handler URL configured every form of a processed page, and of
\* the page written to dist/, has the handler URL as its action and post as
\* its method.
C14_FormsPointAtHandler ==
    ~ NoHandler(form_handler_url)
        => /\ \A i \in 1..Len(processed_pages) :
                 \A k \in 1..Len(processed_pages[i].html.elems) :
                     processed_pages[i].source.elems[k].tag = "form"
                         => /\ processed_pages[i].html.elems[k].ref = form_handler_url
                            /\ processed_pages[i].html.elems[k].method = "post"
           /\ \A f \in DOMAIN dist_pages :
                 \A k \in 1..Len(dist_pages[f].elems) :
                     dist_pages[f].elems[k].tag = "form"
                         => /\ dist_pages[f].elems[k].ref = form_handler_url
                            /\ dist_pages[f].elems[k].method = "post"

C14_Witness ==
    /\ proc_pc = "Done"
    /\ form_handler_url = HandlerUrl
    /\ \E i \in 1..Len(processed_pages) :
          /\ processed_pages[i].source.elems =
                 <<Element("form", TildaFormAction, "get"), Element("form", <<>>, "")>>
          /\ dist_pages[processed_pages[i].filename].elems =
                 <<Element("form", HandlerUrl, "post"), Element("form", HandlerUrl, "post")>>

\* C15: with no handler URL configured (left out or empty) every form of a
\* processed page is the form of the input page, action and method included.
C15_FormsUntouchedWithoutHandler ==
    NoHandler(form_handler_url)
        => \A i \in 1..Len(processed_pages) :
              \A k \in 1..Len(processed_pages[i].html.elems) :
                  processed_pages[i].source.elems[k].tag = "form"
                      => processed_pages[i].html.elems[k]
                             = processed_pages[i].source.elems[k]

C15_Witness ==
    /\ proc_pc = "Done"
    /\ form_handler_url = <<>>
    /\ \E i \in 1..Len(processed_pages) :
          /\ processed_pages[i].source.elems = <<Element("form", TildaFormAction, "get")>>
          /\ dist_pages[processed_pages[i].filename].elems =
                 <<Element("form", TildaFormAction, "get")>>

\* The reference is an absolute URL or a data: URI.
IsAbsoluteOrData(ref) ==
    ref # <<>> /\ ref[1] \in {"https:", "http:", "data:"}

C17_DataUrisSkipped ==
    /\ raised_on # <<>> => AssetRefs(raised_on[1]) # {DataUri}
    /\ DataUri \notin DOMAIN assets_to_download
    /\ \A i \in 1..Len(processed_pages) :
          \A k \in 1..Len(processed_pages[i].html.elems) :
              processed_pages[i].source.elems[k].ref = DataUri
                  => processed_pages[i].html.elems[k].ref = DataUri

\* The last segment of a URL path, slashes at either end ignored.
LastSegment(path) == StripSlashes(path)[Len(StripSlashes(path))]

\* The filename the page URL stands for: index.html for the root, the last
\* path segment followed by .html otherwise.
ExpectedFilename(page_url) ==
    IF urlparse(page_url).path \in {<<>>, <<"/">>} THEN <<"index.html">>
    ELSE <<LastSegment(urlparse(page_url).path), ".html">>

----------------------------------------------------------------------------
\* More claims about the resolver, checked under SpecResolve.

\* C12: no failure on one asset ends the resolver run: the run never leaves
\* the loop by an exception, and when it is over every asset of the initial
\* manifest has been requested.
C12_NoAssetFailureFatal ==
    /\ res_pc # "Raised"
    /\ ResolveEnded => initial_keys \subseteq DOMAIN requests_log

----------------------------------------------------------------------------
\* More claims about the crawler, checked under SpecCrawl.

\* C13: once the fetch of the base URL has failed the crawl has nothing left
\* to do: the queue is empty, no page is recorded and no link was enqueued.
C13_SeedFailureEndsCrawl ==
    (base_url \in DOMAIN page_gets /\ base_url \notin visited)
        => /\ to_visit = <<>>
           /\ pages = <<>>
           /\ enqueued = {}

C13_Witness ==
    /\ crawl_pc = "Done"
    /\ page_gets = [u \in {base_url} |-> 1]
    /\ base_url \notin visited
    /\ pages = <<>>

----------------------------------------------------------------------------
\* More claims about the path mapper, checked under SpecMap.

\* C18: two URLs that differ only in query string or fragment are mapped to
\* the same local path.
C18_QueryAndFragmentIgnored ==
    \A i, j \in 1..Len(map_calls) :
        ( /\ map_calls[i].url # map_calls[j].url
          /\ map_calls[i].url # <<>> /\ map_calls[j].url # <<>>
          /\ CleanUrl(urlparse(map_calls[i].url)) = CleanUrl(urlparse(map_calls[j].url)) )
            => /\ ~ IsException(map_calls[i].out)
               /\ map_calls[i].out = map_calls[j].out

\* C19: two URLs that differ in host or path are mapped to different local
\* paths.
C19_CollisionSafe ==
    \A i, j \in 1..Len(map_calls) :
        ( /\ map_calls[i].url # <<>> /\ map_calls[j].url # <<>>
          /\ \/ urlparse(map_calls[i].url).netloc # urlparse(map_calls[j].url).netloc
             \/ urlparse(map_calls[i].url).path # urlparse(map_calls[j].url).path )
            => /\ ~ IsException(map_calls[i].out)
               /\ ~ IsException(map_calls[j].out)
               /\ map_calls[i].out # map_calls[j].out

\* The hashed fallback path for a URL without a host.
NoHostnameFallback(url) == assets_dir \o <<"/", "no-hostname", "/", md5hex(url)>>

\* C21: for a non-empty URL without a host the path mapper returns
\* assets/no-hostname/<hash> and does not raise.
C21_NoHostFallback ==
    \A i \in 1..Len(map_calls) :
        (map_calls[i].url # <<>> /\ urlparse(map_calls[i].url).netloc = <<>>)
            => map_calls[i].out = NoHostnameFallback(map_calls[i].url)

\* C22: an asset fetch that failed transiently is tried again (the URL is
\* back in the queue or has been requested more than once), and one that
\* failed permanently is skipped after its one attempt.
C22_RetryOnTransient ==
    last_failure # <<>> =>
        IF last_failure[1].kind = "transient"
          THEN \/ last_failure[1].url \in download_queue
               \/ requests_log[last_failure[1].url] >= 2
          ELSE /\ last_failure[1].url \notin download_queue
               /\ requests_log[last_failure[1].url] = 1

----------------------------------------------------------------------------
\* The frontier claims about the crawler, checked under SpecCrawl.

\* The number of page records for the URL.
RecordsOf(u) == Cardinality({i \in 1..Len(pages) : pages[i].url = u})

\* C26: no URL occurs twice in to_visit, no URL of to_visit is in visited (so
\* none that is visited or queued was appended), and a URL of visited was
\* added to it once: it has one page record.
C26_FrontierInvariant ==
    /\ \A i, j \in 1..Len(to_visit) : i # j => to_visit[i] # to_visit[j]
    /\ \A i \in 1..Len(to_visit) : to_visit[i] \notin visited
    /\ \A u \in visited : RecordsOf(u) = 1

C26_Witness ==
    /\ Len(pages) = 3
    /\ Len(to_visit) = 1
    /\ \E u \in DOMAIN page_gets : page_gets[u] = 2

\* C27: no URL is fetched more than once in one run of extract_pages.
C27_FetchedAtMostOnce == \A u \in DOMAIN page_gets : page_gets[u] <= 1

\* C28: a page other than the base page whose fetch failed is absent from the
\* pages collected.
C28_FailedPageAbsent ==
    \A u \in DOMAIN page_gets :
        (u # base_url /\ (page_gets[u] = 2 \/ u \notin visited))
            => RecordsOf(u) = 0

----------------------------------------------------------------------------
\* The claim about the migrate command, checked under SpecMigrate.

\* A step of migrate or the process command has failed.
MigrateFailed == mig_pc = "Exit1" \/ proc_pc = "Exit1"

\* The steps started so far are the first steps of the four, in order; the
\* process command runs only as the third of them, with the URL the handler
\* deployment returned.
MigrateOrdered ==
    /\ Len(steps) <= Len(MigrateSteps)
    /\ steps = SubSeq(MigrateSteps, 1, Len(steps))
    /\ proc_pc # "Idle" =>
          /\ Len(steps) >= 3
          /\ mig_pc # "Idle" /\ mig_pc # "Extracted"
          /\ form_handler_url = form_url

\* C23: migrate starts its steps in the order Extract, Deploy Form Handler,
\* Process, Deploy Static Site; process starts after the handler deployment
\* has returned and is given the URL it returned; once a step has failed no
\* further step is started.
C23_MigrateOrder ==
    /\ []MigrateOrdered
    /\ [][MigrateFailed => steps' = steps]_vars

C23_Witness ==
    /\ steps = MigrateSteps
    /\ mig_pc = "StaticDeployed"
    /\ form_handler_url = HandlerUrl
    /\ \E f \in DOMAIN dist_pages : TRUE

----------------------------------------------------------------------------
\* The claim about MigrationAgent.run, checked under SpecAgent.

\* What changes the cloud: a VM created or deleted, content uploaded, a
\* command run on the VM.
DeploymentActions == {"vm_created", "vm_deleted", "upload", "remote_command"}

\* run has gone through deployer.create_vm() and has not raised since.
PastCreateVm ==
    agent_pc \in {"VmCreated", "Uploaded", "Configured", "Deployed", "FormsSet",
                  "Monitored", "BackedUp", "Done"}

----------------------------------------------------------------------------
\* The claim about relativize_links, checked under SpecRelativize.

\* An href of a or link, or a src of script, img or source.
IsLinkAttribute(item) ==
    \/ item.tag \in {"a", "link"} /\ item.attr = "href"
    \/ item.tag \in {"script", "img", "source"} /\ item.attr = "src"

\* C25: in the result of relativize_links every href of a and link and every
\* src of script, img and source whose URL has the host of base_url is "."
\* followed by the URL's path, and each of them with another host is as it
\* was given.
C25_RelativizeSameHost ==
    \A c \in 1..Len(rel_last) : \A i \in 1..Len(rel_last[c].html) :
        IsLinkAttribute(rel_last[c].html[i]) =>
            IF urlparse(rel_last[c].html[i].url).netloc
                 = urlparse(rel_last[c].base).netloc
            THEN rel_last[c].out[i].url
                   = <<".">> \o urlparse(rel_last[c].html[i].url).path
            ELSE rel_last[c].out[i] = rel_last[c].html[i]

C25_Witness ==
    /\ rel_last # <<>>
    /\ rel_last[1].base = SiteBase
    /\ Len(rel_last[1].html) = 2
    /\ rel_last[1].html[1].url = CssA \o <<"?", "v=1">>
    /\ rel_last[1].out[1].url = <<".", "/", "css", "/", "a.css">>
    /\ rel_last[1].html[2].url = CdnImg
    /\ rel_last[1].out[2].url = CdnImg

----------------------------------------------------------------------------
\* The claims about a crawl without failures, checked under SpecCrawlSite.

\* The a[href] values of the page at u that are links to follow, made
\* absolute.
LinkTargets(u) ==
    { urljoin(base_url, site[u][i]) :
        i \in {j \in 1..Len(site[u]) : ~ SkippedHref(site[u][j])} }

\* The URL has the scheme and the host of the base URL.
SameOrigin(abs_url) ==
    /\ ~ IsException(abs_url)
    /\ urlparse(abs_url).scheme = urlparse(base_url).scheme
    /\ urlparse(abs_url).netloc = urlparse(base_url).netloc

\* The pages of S and the same-origin pages they link to.
OriginStep(S) ==
    S \cup UNION { {v \in LinkTargets(u) : SameOrigin(v)} : u \in S \cap SitePages }

RECURSIVE OriginWithin(_)
OriginWithin(n) == IF n = 0 THEN {base_url} ELSE OriginStep(OriginWithin(n - 1))

\* The URLs reachable from the base URL over same-origin links.
OriginReachable == OriginWithin(Cardinality(SitePages))

\* The URLs of the pages collected.
PageUrlsOf(list) == {list[i].url : i \in 1..Len(list)}

\* C29: when no fetch fails, the URLs of the pages extract_pages returns are
\* the URLs reachable from the base URL over a[href] links to the same
\* origin, no more and no fewer.
C29_ReachableExactly ==
    crawl_pc = "Done" => PageUrlsOf(pages) = OriginReachable

\* The pages of S and the pages the crawler's link filter lets it follow
\* from them.
FollowStep(S) ==
    S \cup UNION { {v \in LinkTargets(u) :
                      ~ IsException(v) /\ StartsWith(v, base_url)}
                  : u \in S \cap SitePages }

RECURSIVE FollowWithin(_)
FollowWithin(n) == IF n = 0 THEN {base_url} ELSE FollowStep(FollowWithin(n - 1))

\* The link distance of a URL from the base URL, if it has one.
Distance(u) ==
    CHOOSE n \in 0..Cardinality(SitePages) :
        /\ u \in FollowWithin(n)
        /\ n > 0 => u \notin FollowWithin(n - 1)

\* C30: when no fetch fails, the pages collected are in non-decreasing link
\* distance from the base URL: no page is followed by one that is nearer.
C30_BreadthFirst ==
    \A i \in 1..(Len(pages) - 1) :
        Distance(pages[i].url) <= Distance(pages[i + 1].url)

C30_Witness ==
    /\ crawl_pc = "Done"
    /\ Len(pages) = 4
    /\ Distance(pages[2].url) = 1
    /\ Distance(pages[3].url) = 1
    /\ Distance(pages[4].url) = 2

----------------------------------------------------------------------------
\* The manifest claims about page processing, checked under SpecProcess.

\* The references of the elements that the asset passes have to localise:
\* the non-empty img, link and script references other than data: URIs.
RefsToLocalise(elems) == {r \in AssetRefs(elems) : r # <<>> /\ r[1] # "data:"}

\* The reference, resolved against the URL of a page, is a manifest key.
ResolvedIsKey(ref, page_urls) ==
    \E u \in page_urls : urljoin(u, ref) \in DOMAIN assets_to_download

\* C31: every manifest key is an absolute URL, and every reference of a page
\* that went through _process_page has its URL, resolved against the page's
\* URL, as a manifest key.
C31_ManifestKeysAbsolute ==
    /\ \A u \in DOMAIN assets_to_download : u # <<>> /\ u[1] \in {"https:", "http:"}
    /\ \A i \in 1..Len(processed_pages) :
          \A r \in RefsToLocalise(processed_pages[i].source.elems) :
              ResolvedIsKey(r, {processed_pages[i].url})
    /\ raised_on # <<>> =>
          \A r \in RefsToLocalise(raised_on[1]) : ResolvedIsKey(r, PageUrls)

\* The path has neither a query string nor a fragment.
NoQueryOrFragment(path) == \A k \in 1..Len(path) : path[k] \notin {"?", "#"}

\* The rewritten reference is the stored local path of the original one,
\* followed by "?" and the original query string when there is one.
RewrittenWithQuery(ref, original) ==
    /\ original \in DOMAIN assets_to_download
    /\ NoQueryOrFragment(assets_to_download[original].local_path)
    /\ ref = IF urlparse(original).query # <<>>
             THEN assets_to_download[original].local_path
                    \o <<"?">> \o urlparse(original).query
             ELSE assets_to_download[original].local_path

\* C32: a page whose references carry a query string is rewritten, not
\* refused; each rewritten reference is the stored local path, followed by
\* "?" and the original query when there is one, and no stored local path
\* has a query string or fragment.
C32_QueryReattached ==
    /\ raised_on # <<>> =>
          \A r \in RefsToLocalise(raised_on[1]) : urlparse(r).query = <<>>
    /\ \A u \in DOMAIN assets_to_download :
          NoQueryOrFragment(assets_to_download[u].local_path)
    /\ \A i \in 1..Len(processed_pages) :
          \A k \in 1..Len(processed_pages[i].html.elems) :
              processed_pages[i].source.elems[k].ref
                    \in RefsToLocalise(processed_pages[i].source.elems)
                  => RewrittenWithQuery(processed_pages[i].html.elems[k].ref,
                                        processed_pages[i].source.elems[k].ref)

----------------------------------------------------------------------------
\* The layout claim about the path mapper, checked under SpecMap.

\* assets/<host>/<path>, with index.html after an empty path or one that
\* ends in "/".
HostPathLayout(parsed_url) ==
    assets_dir \o <<"/">> \o parsed_url.netloc
    \o (IF parsed_url.path = <<>> THEN <<"/", "index.html">>
        ELSE IF parsed_url.path[Len(parsed_url.path)] = "/"
        THEN parsed_url.path \o <<"index.html">>
        ELSE parsed_url.path)

\* C33: for a URL with a host and no ".." in its path the path mapper returns
\* assets/<host>/<path>, ending in index.html when the path is empty or ends
\* in "/".
C33_HostPathLayout ==
    \A i \in 1..Len(map_calls) :
        ( /\ map_calls[i].url # <<>>
          /\ urlparse(map_calls[i].url).netloc # <<>>
          /\ ~ HasDotDot(map_calls[i].url) )
            => map_calls[i].out = HostPathLayout(urlparse(map_calls[i].url))

\* A stylesheet that was scanned references v.
ReferencedByScanned(v) ==
    \E s \in scanned :
        v \in SeqToSet(extract_new_urls_from_css(StoredFor(s), s))

C35_SingleWarning ==
    (NoHandler(form_handler_url) /\ proc_pc \in {"Done", "Exit1"})
        => warnings = 1

\* What of an element neither an asset pass nor the form pass may touch: its
\* tag, and the method of an element that is not a form.
SameButRefs(out, in) ==
    /\ out.tag = in.tag
    /\ in.tag # "form" => out.method = in.method

\* C36: a processed page differs from the page read only in its img src,
\* stylesheet href and script src values and in the action and method of its
\* forms: it has the same elements in the same order, and its head has the
\* children it had, so no base element where the page read had none.
C36_OnlyRefsAndForms ==
    \A i \in 1..Len(processed_pages) :
        /\ processed_pages[i].html.base = <<>>
        /\ Len(processed_pages[i].html.elems)
              = Len(processed_pages[i].source.elems)
        /\ \A k \in 1..Len(processed_pages[i].html.elems) :
              SameButRefs(processed_pages[i].html.elems[k],
                          processed_pages[i].source.elems[k])

\* C37: a URL is requested only while the manifest has an entry for it, and
\* when the resolver returns every key of the manifest, those it was called
\* with and those added on the way, is in processed_urls.
C37_AllKeysProcessed ==
    /\ DOMAIN requests_log \subseteq DOMAIN assets_to_download
    /\ res_pc = "Returned"
          => DOMAIN assets_to_download \subseteq processed_urls

\* The resolver returned from a manifest of a stylesheet, a font and an
\* image, the stylesheet having been scanned and one of the requests having
\* failed.
C37_Witness ==
    /\ res_pc = "Returned"
    /\ DOMAIN assets_to_download = {CssA, FontF, CdnImg}
    /\ CssA \in scanned
    /\ DOMAIN requests_log = {CssA, FontF, CdnImg}
    /\ DOMAIN dist_files # ManifestPaths

\* What a run of the resolver leaves: the manifest and the files of dist/.
OrderOutcome(assets, files) == [assets |-> assets, files |-> files]

\* The outcomes of the loop of main.py:54-85 from the given queue, manifest,
\* processed_urls and files over every order in which set.pop() may hand out
\* the URLs, server[u] being what requests.get(u) answers.  The steps are
\* those of ResolveIteration; a run the mapper raises out of ends there.
RECURSIVE Outcomes(_, _, _, _, _)
OutcomesScanned(after, processed1, files1, server) ==
    IF after.raised
    THEN {OrderOutcome(after.assets, files1)}
    ELSE Outcomes(after.queue, after.assets, processed1, files1, server)

OutcomesStored(u, queue1, assets, processed1, files1, server, local_path) ==
    IF server[u].css \/ EndsWithCss(local_path)
    THEN OutcomesScanned(
             EnqueueNew(extract_new_urls_from_css(server[u].body, u),
                        queue1, assets, processed1, cfg_base_url),
             processed1, files1, server)
    ELSE Outcomes(queue1, assets, processed1, files1, server)

OutcomesFetched(u, queue1, assets, processed1, files, server, local_path) ==
    IF IsException(local_path)
    THEN {OrderOutcome(assets, files)}
    ELSE IF ~ server[u].ok
    THEN Outcomes(AfterAssetFailure(queue1, u), assets, processed1, files, server)
    ELSE OutcomesStored(u, queue1, assets, processed1,
                        DictSet(files, local_path, StoredContent(server[u])),
                        server, local_path)

OutcomesOf(u, queue, assets, processed, files, server) ==
    IF u \in processed
    THEN Outcomes(queue \ {u}, assets, processed, files, server)
    ELSE OutcomesFetched(u, queue \ {u}, assets, MarkProcessed(processed, u),
                         files, server,
                         IF u \in DOMAIN assets
                         THEN assets[u].local_path
                         ELSE generate_local_path(u, cfg_base_url))

Outcomes(queue, assets, processed, files, server) ==
    IF queue = {}
    THEN {OrderOutcome(assets, files)}
    ELSE UNION {OutcomesOf(u, queue, assets, processed, files, server) : u \in queue}

\* The manifest the resolver was called with.
InitialManifest == [u \in initial_keys |-> assets_to_download[u]]

\* What the server answered for a URL this run requested, read off the files
\* stored and the stylesheets scanned.
ObservedResponse(u) ==
    IF assets_to_download[u].local_path \in DOMAIN dist_files
    THEN [ok |-> TRUE, css |-> u \in scanned, body |-> StoredFor(u)]
    ELSE FailedResponse

\* The servers that answer as this run saw: an answer for every key of the
\* manifest, the observed one for a URL this run requested.
ServersSeen ==
    { [u \in initial_keys |->
          IF u \in DOMAIN requests_log THEN ObservedResponse(u) ELSE rest[u]]
        : rest \in [initial_keys \ DOMAIN requests_log ->
                       Responses(CssA) \cup {FailedResponse}] }

\* A scan of a stylesheet ended in the mapper's exception.
MapperRaised ==
    \E s \in scanned :
        \E f \in SeqToSet(extract_new_urls_from_css(StoredFor(s), s)) :
            f \notin DOMAIN assets_to_download

\* C38: a run of the resolver that returned, or that an exception of its own
\* code ended, left what every other order of taking the URLs from
\* download_queue leaves on the same manifest with a server giving the same
\* answers: the same manifest and the same files with the same contents.
C38_OrderIndependent ==
    (res_pc = "Returned" \/ (res_pc = "Raised" /\ MapperRaised))
        => \A server \in ServersSeen :
              Outcomes(initial_keys, InitialManifest, {}, <<>>, server)
                  = {OrderOutcome(assets_to_download, dist_files)}

\* The processed pages have pairwise distinct URLs.
DistinctPageUrls ==
    \A i, j \in 1..Len(processed_pages) :
        processed_pages[i].url = processed_pages[j].url => i = j

\* C39: pages of distinct URLs get distinct filenames, and once the pages are
\* written dist/ holds one page file for each of them.
C39_OneFilePerPage ==
    DistinctPageUrls
        => /\ \A i, j \in 1..Len(processed_pages) :
                 processed_pages[i].filename = processed_pages[j].filename
                     => i = j
           /\ proc_pc \in {"Written", "Done"}
                 => Cardinality(DOMAIN dist_pages) = Len(processed_pages)

====
